---- MODULE Spec2Model ----
(***************************************************************************)
(* A model of the financial scoring and prediction engine of ExplorerPM.   *)
(*                                                                         *)
(*  - FinancialModels (src/models/financial_models.py): the process-wide   *)
(*    predictor, its lazy training and the four inference operations,      *)
(*    called by the sessions of the application.                           *)
(*  - Dashboard.calculate_financial_health_score / calculate_risk_factors  *)
(*    (src/components/dashboard.py) and                                    *)
(*    DataPreprocessor.calculate_financial_ratios                          *)
(*    (src/utils/data_preprocessing.py): pure functions of a profile.      *)
(*  - FirebaseService.save_user_data / get_user_data and                   *)
(*    save_chat_history / get_chat_history on the in-memory store          *)
(*    (src/services/firebase_service.py).                                  *)
(*  - DataInput (src/components/data_input.py): the profile of a session;  *)
(*    Dashboard.render_risk_tab; the chat handlers of ChatInterface        *)
(*    (src/components/chat_interface.py).                                  *)
(*                                                                         *)
(* Numbers.  Python floats are modelled exactly: a probability is an       *)
(* integer number of hundredths, a projected amount is an integer number   *)
(* of hundredths of a currency unit, and a score is a rational <<n, d>>    *)
(* with d > 0.  The inputs are small integers, for which the comparisons   *)
(* of the code give the same answer on floats as on the exact values.      *)
(***************************************************************************)
EXTENDS Integers, Sequences, FiniteSets, TLC

VARIABLES
    is_trained,     \* FinancialModels.is_trained
    models,         \* expense_model, investment_model, risk_model, insurance_model
    training_data,  \* the cached result of load_training_data
    label_encoders, \* FinancialModels.label_encoders: column -> encoder
    features,       \* per session: what prepare_user_features returned
    pc,             \* per session: the position of its call
    op,             \* per session: the operation it called
    sub,            \* per session: the method of FinancialModels it is in
    user_data,      \* per session: the profile mapping passed to the call
    risk_score,     \* per session: generate_predictions' local risk_score
    investment_pred,\* per session: generate_predictions' local investment_pred
    ret,            \* per session: what the call returned
    profile,        \* the profile mapping given to a scoring function
    result,         \* what the scoring function returned
    previous,       \* what the call before it returned
    store,          \* the 'users' collection of the store: user id -> document
    now,            \* the clock read by datetime.now()
    submitted,      \* per user: the mapping last passed to save_user_data
    loaded,         \* per user: what get_user_data last returned
    session_state,  \* per user: st.session_state.user_data of the user's session
    collections,    \* the other collections of the store: name -> (user id -> document)
    chat_messages,  \* per user: st.session_state.chat_messages of the user's session
    chat_returned   \* per user: what get_chat_history last returned

predictorVars == <<is_trained, models, training_data, label_encoders, features,
                   pc, op, sub, user_data, risk_score, investment_pred, ret>>

engineVars == <<profile, result, previous>>

chatVars == <<collections, chat_messages, chat_returned>>

storeVars == <<store, now, submitted, loaded, session_state, chatVars>>

vars == <<predictorVars, engineVars, storeVars>>

(***************************************************************************)
(* Mappings: a Python dict is a function whose DOMAIN is its set of keys.  *)
(***************************************************************************)
EmptyMap == [k \in {} |-> 0]

Get(d, k, default) == IF k \in DOMAIN d THEN d[k] ELSE default

Update(old, new) ==
    [k \in DOMAIN old \cup DOMAIN new |-> IF k \in DOMAIN new THEN new[k] ELSE old[k]]

(***************************************************************************)
(*                      FinancialModels: the predictor                     *)
(***************************************************************************)
Sessions == {"s1", "s2"}

ModelNames == {"expense", "investment", "risk", "insurance"}

\* The methods of FinancialModels that start with `if not self.is_trained`,
\* and DataInput.save_user_data, which has the same test.
PredictOps == {"predict_expenses", "predict_investment_potential",
               "assess_risk", "predict_insurance_need"}

Operations == PredictOps \cup {"generate_predictions", "save_user_data"}

ModelOf(method) ==
    CASE method = "predict_expenses" -> "expense"
      [] method = "predict_investment_potential" -> "investment"
      [] method = "assess_risk" -> "risk"
      [] method = "predict_insurance_need" -> "insurance"

\* The order in which generate_predictions calls the inference operations.
NextPredictOp(method) ==
    CASE method = "generate_predictions" -> "predict_expenses"
      [] method = "predict_expenses" -> "predict_investment_potential"
      [] method = "predict_investment_potential" -> "assess_risk"
      [] method = "assess_risk" -> "predict_insurance_need"

\* train_models, statement by statement: for each model in turn, "target"
\* selects the target column, splits and assigns a new estimator to the
\* attribute; "fit" fits that estimator.
TargetPc == {"target1", "target2", "target3", "target4"}

FitPc == {"fit1", "fit2", "fit3", "fit4"}

FitModel(p) ==
    CASE p \in {"target1", "fit1"} -> "expense"
      [] p \in {"target2", "fit2"} -> "investment"
      [] p \in {"target3", "fit3"} -> "risk"
      [] p \in {"target4", "fit4"} -> "insurance"

AfterTarget(p) ==
    CASE p = "target1" -> "fit1"
      [] p = "target2" -> "fit2"
      [] p = "target3" -> "fit3"
      [] p = "target4" -> "fit4"

\* train_models finishing after the third model, the fourth left as it was.
AfterFitEarlyFinish(p) ==
    CASE p = "fit1" -> "target2"
      [] p = "fit2" -> "target3"
      [] p = "fit3" -> "finish"
      [] p = "fit4" -> "finish"

AfterFit(p) ==
    CASE p = "fit1" -> "target2"
      [] p = "fit2" -> "target3"
      [] p = "fit3" -> "target4"
      [] p = "fit4" -> "finish"

\* A session is inside the try block of train_models, which assigns and
\* fits the model attributes and sets is_trained.
InTrainModels(s) == pc[s] \in TargetPc \cup FitPc \cup {"finish"}

\* Neutral defaults of the inference operations, probabilities in hundredths.
NeutralDefault(method) == IF method = "assess_risk" THEN 50 ELSE 0

NoReturn == [kind |-> "none", value |-> 0, predictions |-> EmptyMap]

Returned(v) == [kind |-> "value", value |-> v, predictions |-> EmptyMap]

Raised == [kind |-> "raised", value |-> 0, predictions |-> EmptyMap]

ReturnedPredictions(p) == [kind |-> "predictions", value |-> 0, predictions |-> p]

(***************************************************************************)
(* generate_predictions: the projection records.  Probabilities are in     *)
(* hundredths; savings_growth, investment_returns and risk_score are in    *)
(* hundredths too (1.1 * savings is 110 * savings hundredths).             *)
(***************************************************************************)
Horizons == {"1_year", "3_year", "10_year"}

RecordFields == {"savings_growth", "investment_returns", "risk_score", "health_status"}

HealthStatusShortInclusive(risk) ==
    IF risk <= 30 THEN "Good" ELSE IF risk <= 70 THEN "Moderate" ELSE "High Risk"

\* The labels of get_health_status in place of those of the projections.
HealthStatusShortScoreLabels(risk) ==
    IF risk < 30 THEN "Good" ELSE IF risk < 70 THEN "Fair" ELSE "Needs Improvement"

\* 'Good' if risk_score < 0.3 else 'Moderate' if risk_score < 0.7 else 'High Risk'
HealthStatusShort(risk) ==
    IF risk < 30 THEN "Good" ELSE IF risk < 70 THEN "Moderate" ELSE "High Risk"

\* The 10-year thresholds halved: 0.1 and 0.2.
HealthStatusLongCautious(risk) ==
    IF risk < 10 THEN "Excellent" ELSE IF risk < 20 THEN "Good" ELSE "Moderate"

HealthStatusLongInclusive(risk) ==
    IF risk <= 20 THEN "Excellent" ELSE IF risk <= 50 THEN "Good" ELSE "Moderate"

\* 'Excellent' if risk_score < 0.2 else 'Good' if risk_score < 0.5 else 'Moderate'
HealthStatusLong(risk) ==
    IF risk < 20 THEN "Excellent" ELSE IF risk < 50 THEN "Good" ELSE "Moderate"

Predictions(data, invest, risk) ==
    LET current_income == Get(data, "net_monthly_income", 0)
        current_savings == Get(data, "savings_total", 0)
    IN  [h \in Horizons |->
            CASE h = "1_year" ->
                    [savings_growth |-> current_savings * 110 + current_income * 240,
                     investment_returns |-> invest * 12,
                     risk_score |-> risk * 10,
                     health_status |-> HealthStatusShort(risk)]
              [] h = "3_year" ->
                    [savings_growth |-> current_savings * 135 + current_income * 720,
                     investment_returns |-> invest * 40,
                     risk_score |-> risk * 10,
                     health_status |-> HealthStatusShort(risk)]
              [] h = "10_year" ->
                    [savings_growth |-> current_savings * 250 + current_income * 3000,
                     investment_returns |-> invest * 180,
                     risk_score |-> risk * 10,
                     health_status |-> HealthStatusLong(risk)]]

(***************************************************************************)
(* Label encoders of the categorical columns.  preprocess_data encodes     *)
(* five columns in the same way; the model keeps the two that              *)
(* prepare_user_features reads.                                            *)
(***************************************************************************)
EncodedCols == {"income_type", "class"}

\* The category strings of the model, in the order np.unique sorts them.
SortedCategories == <<"dual_income", "freelance", "middle", "poor", "rich",
                      "single_income">>

\* The distinct values of a categorical column of the training file.
TrainingColumn(col) ==
    IF col = "income_type" THEN {"dual_income", "single_income"}
                           ELSE {"middle", "poor"}

\* LabelEncoder.fit: classes_ = np.unique(y), the distinct values sorted.
FitClasses(values) == SelectSeq(SortedCategories, LAMBDA c : c \in values)

\* An entry of self.label_encoders: no entry, LabelEncoder() not yet fitted,
\* or a fitted encoder with its classes_.
NoEncoder == [state |-> "none", classes_ |-> <<>>]

NewLabelEncoder == [state |-> "unfitted", classes_ |-> <<>>]

FittedEncoder(values) == [state |-> "fitted", classes_ |-> FitClasses(values)]

Seen(enc, v) == \E i \in 1..Len(enc.classes_) : enc.classes_[i] = v

\* LabelEncoder.transform([v])[0]: the position of v in classes_, from 0.
Transform(enc, v) == (CHOOSE i \in 1..Len(enc.classes_) : enc.classes_[i] = v) - 1

\* prepare_user_features, one categorical feature:
\*   encoded = 0
\*   if col in self.label_encoders:
\*       v = user_data.get(col, default)
\*       if v in self.label_encoders[col].classes_: encoded = transform([v])[0]
EncodeFeature(enc, v) ==
    IF enc.state = "fitted" /\ Seen(enc, v) THEN Transform(enc, v) ELSE 0

CategoricalDefault(col) == IF col = "income_type" THEN "single_income" ELSE "middle"

NoFeatures == [none |-> TRUE, income_type |-> 0, class |-> 0]

\* prepare_user_features(user_data): None for `not user_data`, and None when
\* reading classes_ of an encoder that is not fitted raises inside its try.
prepare_user_features(data) ==
    IF data = EmptyMap THEN NoFeatures
    ELSE IF \E c \in EncodedCols : label_encoders[c].state = "unfitted" THEN NoFeatures
    ELSE [none |-> FALSE,
          income_type |-> EncodeFeature(label_encoders["income_type"],
                             Get(data, "income_type", CategoricalDefault("income_type"))),
          class |-> EncodeFeature(label_encoders["class"],
                             Get(data, "class", CategoricalDefault("class")))]

\* preprocess_data, per categorical column: the membership test, the
\* assignment of a new LabelEncoder, its fit_transform.
EncTestPc == {"enc_test1", "enc_test2"}

EncNewPc == {"enc_new1", "enc_new2"}

EncFitPc == {"enc_fit1", "enc_fit2"}

EncCol(p) == IF p \in {"enc_test1", "enc_new1", "enc_fit1"} THEN "income_type" ELSE "class"

\* The statement after the encoding of a column: the next column, then the
\* selection of the feature columns.
AfterEncoding(p) == IF EncCol(p) = "income_type" THEN "enc_test2" ELSE "pre"

PreprocessPc == EncTestPc \cup EncNewPc \cup EncFitPc \cup {"pre"}

(***************************************************************************)
(* Inputs of the predictor.                                                *)
(***************************************************************************)
\* Profiles passed to the predictor: the empty mapping, for which
\* prepare_user_features returns None, mappings with or without the two
\* fields generate_predictions reads (an imported negative amount included),
\* and mappings whose categorical values are or are not among the values of
\* the training file.
PredictorProfiles ==
    {EmptyMap,
     [k \in {"household_size"} |-> 1],
     [k \in {"net_monthly_income", "savings_total"} |->
         IF k = "net_monthly_income" THEN 2 ELSE 3],
     [k \in {"net_monthly_income", "savings_total"} |->
         IF k = "net_monthly_income" THEN 0 ELSE -1],
     [income_type |-> "dual_income", class |-> "poor"],
     [income_type |-> "freelance", class |-> "rich"]}

\* What a fitted regressor may predict.
RegressionValues == {0, 7}

\* What the fitted classifier may give as probability of the stressed class,
\* in hundredths: both sides of every threshold of generate_predictions.
RiskValues == {0, 20, 30, 50, 70, 100}

(***************************************************************************)
(* Steps of a call.                                                        *)
(***************************************************************************)
\* generate_predictions going on to its predict_* calls whatever train_models
\* returned.
ContinueIgnoresFailure(s, trained) ==
    IF sub[s] = "generate_predictions"
    THEN /\ sub' = [sub EXCEPT ![s] = NextPredictOp(sub[s])]
         /\ pc' = [pc EXCEPT ![s] = "check"]
         /\ ret' = ret
    ELSE IF sub[s] = "save_user_data"
    THEN /\ pc' = [pc EXCEPT ![s] = "done"]
         /\ UNCHANGED <<sub, ret>>
    ELSE /\ pc' = [pc EXCEPT ![s] = "infer"]
         /\ UNCHANGED <<sub, ret>>

\* What the method in sub[s] does once its `if not self.is_trained` block is
\* over: trained tells whether train_models, if it ran, returned True.
Continue(s, trained) ==
    IF sub[s] = "generate_predictions"
    THEN IF trained
         THEN /\ sub' = [sub EXCEPT ![s] = NextPredictOp(sub[s])]
              /\ pc' = [pc EXCEPT ![s] = "check"]
              /\ ret' = ret
         ELSE /\ ret' = [ret EXCEPT ![s] = ReturnedPredictions(EmptyMap)]
              /\ pc' = [pc EXCEPT ![s] = "done"]
              /\ sub' = sub
    ELSE IF sub[s] = "save_user_data"
    THEN /\ pc' = [pc EXCEPT ![s] = "done"]
         /\ UNCHANGED <<sub, ret>>
    ELSE /\ pc' = [pc EXCEPT ![s] = "infer"]
         /\ UNCHANGED <<sub, ret>>

\* A session calls an operation of the shared predictor.  save_user_data of
\* DataInput reaches its is_trained test only when the store accepted the save.
Call(s, profiles) ==
    /\ pc[s] \in {"idle", "done"}
    /\ \E o \in Operations, d \in profiles, saved \in BOOLEAN :
        /\ o = "save_user_data" \/ saved
        /\ op' = [op EXCEPT ![s] = o]
        /\ sub' = [sub EXCEPT ![s] = o]
        /\ user_data' = [user_data EXCEPT ![s] = d]
        /\ pc' = [pc EXCEPT ![s] = IF saved THEN "check" ELSE "done"]
    /\ ret' = [ret EXCEPT ![s] = NoReturn]
    /\ risk_score' = [risk_score EXCEPT ![s] = 0]
    /\ investment_pred' = [investment_pred EXCEPT ![s] = 0]
    /\ features' = [features EXCEPT ![s] = NoFeatures]
    /\ UNCHANGED <<is_trained, models, training_data, label_encoders>>
    /\ UNCHANGED <<engineVars, storeVars>>

CheckAlwaysTrains(s) ==
    /\ pc[s] = "check"
    /\ pc' = [pc EXCEPT ![s] = "load"]
    /\ UNCHANGED <<is_trained, models, training_data, op, sub, user_data,
                   risk_score, investment_pred, ret>>
    /\ UNCHANGED <<label_encoders, features, engineVars, storeVars>>

\* `if not self.is_trained:` at the head of every operation.
Check(s) ==
    /\ pc[s] = "check"
    /\ IF is_trained
       THEN Continue(s, TRUE)
       ELSE /\ pc' = [pc EXCEPT ![s] = "load"]
            /\ UNCHANGED <<sub, ret>>
    /\ UNCHANGED <<is_trained, models, training_data, op, user_data,
                   risk_score, investment_pred>>
    /\ UNCHANGED <<label_encoders, features, engineVars, storeVars>>

\* train_models: data = self.load_training_data(); the result, None
\* included, is cached for the life of the process.
LoadTrainingData(s) ==
    /\ pc[s] = "load"
    /\ \E found \in {"present", "absent"} :
        /\ training_data = "unloaded" \/ found = training_data
        /\ training_data' = found
        /\ IF found = "absent"
           THEN Continue(s, FALSE)
           ELSE /\ pc' = [pc EXCEPT ![s] = "enc_test1"]
                /\ UNCHANGED <<sub, ret>>
    /\ UNCHANGED <<is_trained, models, op, user_data, risk_score, investment_pred>>
    /\ UNCHANGED <<label_encoders, features, engineVars, storeVars>>

\* preprocess_data: `if col not in self.label_encoders:`; in the else branch
\* transform, which raises on an encoder that is not fitted, and then
\* preprocess_data returns (None, None).
TestEncoder(s) ==
    /\ pc[s] \in EncTestPc
    /\ LET enc == label_encoders[EncCol(pc[s])]
       IN  IF enc.state = "none"
           THEN /\ pc' = [pc EXCEPT ![s] = IF pc[s] = "enc_test1" THEN "enc_new1" ELSE "enc_new2"]
                /\ UNCHANGED <<sub, ret>>
           ELSE IF enc.state = "fitted"
           THEN /\ pc' = [pc EXCEPT ![s] = AfterEncoding(pc[s])]
                /\ UNCHANGED <<sub, ret>>
           ELSE Continue(s, FALSE)
    /\ UNCHANGED <<is_trained, models, training_data, label_encoders, features,
                   op, user_data, risk_score, investment_pred>>
    /\ UNCHANGED <<engineVars, storeVars>>

\* preprocess_data: self.label_encoders[col] = LabelEncoder()
NewEncoder(s) ==
    /\ pc[s] \in EncNewPc
    /\ label_encoders' = [label_encoders EXCEPT ![EncCol(pc[s])] = NewLabelEncoder]
    /\ pc' = [pc EXCEPT ![s] = IF pc[s] = "enc_new1" THEN "enc_fit1" ELSE "enc_fit2"]
    /\ UNCHANGED <<is_trained, models, training_data, features, op, sub, user_data,
                   risk_score, investment_pred, ret>>
    /\ UNCHANGED <<engineVars, storeVars>>

\* preprocess_data: self.label_encoders[col].fit_transform(data_copy[col].astype(str)),
\* on the encoder the mapping holds for the column at that moment.
FitEncoder(s) ==
    /\ pc[s] \in EncFitPc
    /\ label_encoders' = [label_encoders EXCEPT ![EncCol(pc[s])] =
                              FittedEncoder(TrainingColumn(EncCol(pc[s])))]
    /\ pc' = [pc EXCEPT ![s] = AfterEncoding(pc[s])]
    /\ UNCHANGED <<is_trained, models, training_data, features, op, sub, user_data,
                   risk_score, investment_pred, ret>>
    /\ UNCHANGED <<engineVars, storeVars>>

\* preprocess_data, after the encoders: (None, None) when no feature column
\* is available or an exception was caught, else X and the targets.
PreprocessData(s) ==
    /\ pc[s] = "pre"
    /\ \E ok \in BOOLEAN :
        IF ok
        THEN /\ pc' = [pc EXCEPT ![s] = "target1"]
             /\ UNCHANGED <<sub, ret>>
        ELSE Continue(s, FALSE)
    /\ UNCHANGED <<is_trained, models, training_data, op, user_data,
                   risk_score, investment_pred>>
    /\ UNCHANGED <<label_encoders, features, engineVars, storeVars>>

\* train_models: y = data_aligned[target]; train_test_split;
\* self.<model> = RandomForest...(): the attribute now holds an estimator
\* that is not fitted.  Selecting the target or splitting may raise.
AssignModel(s) ==
    /\ pc[s] \in TargetPc
    /\ \E raises \in BOOLEAN :
        IF raises
        THEN /\ Continue(s, FALSE)
             /\ models' = models
        ELSE /\ models' = [models EXCEPT ![FitModel(pc[s])] = "unfitted"]
             /\ pc' = [pc EXCEPT ![s] = AfterTarget(pc[s])]
             /\ UNCHANGED <<sub, ret>>
    /\ UNCHANGED <<is_trained, training_data, op, user_data, risk_score, investment_pred>>
    /\ UNCHANGED <<label_encoders, features, engineVars, storeVars>>

\* train_models: self.<model>.fit(X_train, y_train), which may raise.
FitModelStep(s) ==
    /\ pc[s] \in FitPc
    /\ \E raises \in BOOLEAN :
        IF raises
        THEN /\ Continue(s, FALSE)
             /\ models' = models
        ELSE /\ models' = [models EXCEPT ![FitModel(pc[s])] = "fitted"]
             /\ pc' = [pc EXCEPT ![s] = AfterFit(pc[s])]
             /\ UNCHANGED <<sub, ret>>
    /\ UNCHANGED <<is_trained, training_data, op, user_data, risk_score, investment_pred>>
    /\ UNCHANGED <<label_encoders, features, engineVars, storeVars>>

\* train_models: self.scaler.fit(X_train); self.is_trained = True; return True
FinishTraining(s) ==
    /\ pc[s] = "finish"
    /\ is_trained' = TRUE
    /\ Continue(s, TRUE)
    /\ UNCHANGED <<models, training_data, op, user_data, risk_score, investment_pred>>
    /\ UNCHANGED <<label_encoders, features, engineVars, storeVars>>

Value(v) == [raised |-> FALSE, value |-> v]

Raise == [raised |-> TRUE, value |-> 0]

\* What an inference operation computes from the model attribute it reads:
\* the set of its possible outcomes, each a value returned or an exception
\* raised to the caller.
\*   features = self.prepare_user_features(user_data)
\*   if features is None or self.<model> is None: return <default>
\*   prediction = self.<model>.predict(features)
\* assess_risk wraps predict_proba in try/except and returns 0.5 there.
InferenceOutcomes(method, data, model, regs, risks) ==
    IF prepare_user_features(data).none \/ model = "none"
    THEN {Value(NeutralDefault(method))}
    ELSE IF model = "unfitted"
    THEN IF method = "assess_risk" THEN {Value(50)} ELSE {Raise}
    ELSE {Value(v) : v \in IF method = "assess_risk" THEN risks ELSE regs}

\* The rest of an inference operation, and, inside generate_predictions, the
\* caller's next statement.
Infer(s, regs, risks) ==
    /\ pc[s] = "infer"
    /\ \E out \in InferenceOutcomes(sub[s], user_data[s], models[ModelOf(sub[s])],
                                    regs, risks) :
        IF out.raised
        THEN /\ ret' = [ret EXCEPT ![s] = Raised]
             /\ pc' = [pc EXCEPT ![s] = "done"]
             /\ UNCHANGED <<sub, risk_score, investment_pred>>
        ELSE IF op[s] # "generate_predictions"
        THEN /\ ret' = [ret EXCEPT ![s] = Returned(out.value)]
             /\ pc' = [pc EXCEPT ![s] = "done"]
             /\ UNCHANGED <<sub, risk_score, investment_pred>>
        ELSE IF sub[s] = "predict_insurance_need"
        THEN /\ ret' = [ret EXCEPT ![s] = ReturnedPredictions(
                            Predictions(user_data[s], investment_pred[s], risk_score[s]))]
             /\ pc' = [pc EXCEPT ![s] = "done"]
             /\ UNCHANGED <<sub, risk_score, investment_pred>>
        ELSE /\ sub' = [sub EXCEPT ![s] = NextPredictOp(sub[s])]
             /\ pc' = [pc EXCEPT ![s] = "check"]
             /\ risk_score' = [risk_score EXCEPT ![s] =
                                  IF sub[s] = "assess_risk" THEN out.value ELSE @]
             /\ investment_pred' = [investment_pred EXCEPT ![s] =
                                  IF sub[s] = "predict_investment_potential" THEN out.value ELSE @]
             /\ ret' = ret
    /\ features' = [features EXCEPT ![s] = prepare_user_features(user_data[s])]
    /\ UNCHANGED <<is_trained, models, training_data, label_encoders, op, user_data>>
    /\ UNCHANGED <<engineVars, storeVars>>

(***************************************************************************)
(* The predictor as FinancialModels.__init__ leaves it, no call begun.     *)
(***************************************************************************)
InitPredictor ==
    /\ is_trained = FALSE
    /\ models = [m \in ModelNames |-> "none"]
    /\ training_data = "unloaded"
    /\ label_encoders = [c \in EncodedCols |-> NoEncoder]
    /\ features = [s \in Sessions |-> NoFeatures]
    /\ pc = [s \in Sessions |-> "idle"]
    /\ op = [s \in Sessions |-> "none"]
    /\ sub = [s \in Sessions |-> "none"]
    /\ user_data = [s \in Sessions |-> EmptyMap]
    /\ risk_score = [s \in Sessions |-> 0]
    /\ investment_pred = [s \in Sessions |-> 0]
    /\ ret = [s \in Sessions |-> NoReturn]

(***************************************************************************)
(*              Scoring functions of a profile: exact numbers              *)
(***************************************************************************)
\* A number is a pair <<n, d>> with d > 0, standing for n / d.
Num(n) == <<n, 1>>

Lt(a, b) == a[1] * b[2] < b[1] * a[2]

Le(a, b) == a[1] * b[2] <= b[1] * a[2]

Eq(a, b) == a[1] * b[2] = b[1] * a[2]

Plus(a, b) == <<a[1] * b[2] + b[1] * a[2], a[2] * b[2]>>

\* Python's min(a, b) and max(a, b): b only when it is strictly smaller (larger).
Min(a, b) == IF Lt(b, a) THEN b ELSE a

Max(a, b) == IF Lt(a, b) THEN b ELSE a

\* The same number in lowest terms.
RECURSIVE GCD(_, _)
GCD(a, b) == IF b = 0 THEN a ELSE GCD(b, a % b)

Reduce(a) ==
    LET n == IF a[1] < 0 THEN -a[1] ELSE a[1]
        g == GCD(a[2], n)
    IN  <<a[1] \div g, a[2] \div g>>

(***************************************************************************)
(* Dashboard.calculate_financial_health_score                              *)
(***************************************************************************)
\* Income stability worth 25 points instead of 20.
IncomeComponentGenerous(d) ==
    IF Get(d, "net_monthly_income", 0) > 0 THEN Num(25) ELSE Num(0)

\* Income stability (20 points)
IncomeComponent(d) ==
    IF Get(d, "net_monthly_income", 0) > 0 THEN Num(20) ELSE Num(0)

SavingsComponentUncapped(d) ==
    LET income == Get(d, "net_monthly_income", 0)
        savings == Get(d, "savings_total", 0)
    IN  IF income > 0 THEN <<savings * 125, 12 * income>> ELSE Num(0)

\* The savings rate scaled by 100 instead of 125.
SavingsComponentPercent(d) ==
    LET income == Get(d, "net_monthly_income", 0)
        savings == Get(d, "savings_total", 0)
    IN  IF income > 0
        THEN Min(Num(25), <<savings * 100, 12 * income>>)
        ELSE Num(0)

\* Savings rate (25 points): min(25, (savings / 12 / income) * 125)
SavingsComponent(d) ==
    LET income == Get(d, "net_monthly_income", 0)
        savings == Get(d, "savings_total", 0)
    IN  IF income > 0
        THEN Min(Num(25), <<savings * 125, 12 * income>>)
        ELSE Num(0)

\* The lowest debt tier for every profile without income, as Debt Risk has it.
DebtComponentNoIncome(d) ==
    LET income == Get(d, "net_monthly_income", 0)
        debt == Get(d, "debts_total", 0)
        debt_ratio == <<debt, income * 12>>
    IN  IF income > 0
        THEN IF Lt(debt_ratio, <<2, 10>>) THEN Num(20)
             ELSE IF Lt(debt_ratio, <<4, 10>>) THEN Num(15)
             ELSE IF Lt(debt_ratio, <<6, 10>>) THEN Num(10)
             ELSE Num(5)
        ELSE Num(5)

\* Debt management (20 points): debt / (income * 12 if income > 0 else 1)
DebtComponent(d) ==
    LET income == Get(d, "net_monthly_income", 0)
        debt == Get(d, "debts_total", 0)
        annual_income == IF income > 0 THEN income * 12 ELSE 1
        debt_ratio == <<debt, annual_income>>
    IN  IF Lt(debt_ratio, <<2, 10>>) THEN Num(20)
        ELSE IF Lt(debt_ratio, <<4, 10>>) THEN Num(15)
        ELSE IF Lt(debt_ratio, <<6, 10>>) THEN Num(10)
        ELSE Num(5)

\* The emergency tiers with the boundaries 6, 3 and 1 months excluded.
EmergencyComponentStrict(d) ==
    LET emergency_fund == Get(d, "emergency_fund", 0)
        monthly_expenses == Get(d, "fixed_costs_total", 0)
        emergency_months == <<emergency_fund, monthly_expenses>>
    IN  IF monthly_expenses > 0
        THEN IF Lt(Num(6), emergency_months) THEN Num(15)
             ELSE IF Lt(Num(3), emergency_months) THEN Num(10)
             ELSE IF Lt(Num(1), emergency_months) THEN Num(5)
             ELSE Num(0)
        ELSE Num(0)

\* Emergency fund (15 points)
EmergencyComponent(d) ==
    LET emergency_fund == Get(d, "emergency_fund", 0)
        monthly_expenses == Get(d, "fixed_costs_total", 0)
        emergency_months == <<emergency_fund, monthly_expenses>>
    IN  IF monthly_expenses > 0
        THEN IF Le(Num(6), emergency_months) THEN Num(15)
             ELSE IF Le(Num(3), emergency_months) THEN Num(10)
             ELSE IF Le(Num(1), emergency_months) THEN Num(5)
             ELSE Num(0)
        ELSE Num(0)

\* Investment allocation (20 points)
InvestmentComponent(d) ==
    LET investments == Get(d, "investments_total", 0)
        total_assets == Get(d, "assets_total", 0)
        investment_ratio == <<investments, total_assets>>
    IN  IF total_assets > 0
        THEN IF Le(<<30, 100>>, investment_ratio) THEN Num(20)
             ELSE IF Le(<<15, 100>>, investment_ratio) THEN Num(15)
             ELSE IF Le(<<5, 100>>, investment_ratio) THEN Num(10)
             ELSE Num(5)
        ELSE Num(0)

\* The sum with both clamps forgotten: no min(25, ...), no min(100, ...).
health_score_unclamped(d) ==
    Plus(Plus(Plus(Plus(IncomeComponent(d), SavingsComponentUncapped(d)),
                   DebtComponent(d)),
              EmergencyComponent(d)),
         InvestmentComponent(d))

\* score = 0; score += ... : the local variable score at the return statement
HealthScoreSum(d) ==
    Plus(Plus(Plus(Plus(IncomeComponent(d), SavingsComponent(d)),
                   DebtComponent(d)),
              EmergencyComponent(d)),
         InvestmentComponent(d))

\* return min(100, score)
calculate_financial_health_score(d) == Min(Num(100), HealthScoreSum(d))

(***************************************************************************)
(* Dashboard.calculate_risk_factors                                        *)
(***************************************************************************)
RiskFactorNames == {"Debt Risk", "Emergency Fund", "Investment Risk",
                    "Insurance Coverage", "Expense Management"}

\* min(10, debt / (income * 12) * 25) if income > 0 else 10
DebtRisk(d) ==
    LET income == Get(d, "net_monthly_income", 0)
        debt == Get(d, "debts_total", 0)
    IN  IF income > 0 THEN Min(Num(10), <<debt * 25, income * 12>>) ELSE Num(10)

\* max(0, 10 - emergency_fund / monthly_expenses * 1.5) if monthly_expenses > 0 else 8
EmergencyFundRisk(d) ==
    LET emergency_fund == Get(d, "emergency_fund", 0)
        monthly_expenses == Get(d, "fixed_costs_total", 0)
    IN  IF monthly_expenses > 0
        THEN Max(Num(0), <<20 * monthly_expenses - 3 * emergency_fund, 2 * monthly_expenses>>)
        ELSE Num(8)

\* A concentrated portfolio rated 8 instead of 7.
InvestmentRiskConcentrated(d) ==
    LET investments == Get(d, "investments_total", 0)
        total_assets == Get(d, "assets_total", 0)
        investment_ratio == <<investments, total_assets>>
    IN  IF total_assets > 0
        THEN IF Lt(<<8, 10>>, investment_ratio) THEN Num(8)
             ELSE IF Lt(investment_ratio, <<1, 10>>) THEN Num(6)
             ELSE Num(3)
        ELSE Num(5)

\* 7 if ratio > 0.8, 6 if ratio < 0.1, else 3; 5 without assets
InvestmentRisk(d) ==
    LET investments == Get(d, "investments_total", 0)
        total_assets == Get(d, "assets_total", 0)
        investment_ratio == <<investments, total_assets>>
    IN  IF total_assets > 0
        THEN IF Lt(<<8, 10>>, investment_ratio) THEN Num(7)
             ELSE IF Lt(investment_ratio, <<1, 10>>) THEN Num(6)
             ELSE Num(3)
        ELSE Num(5)

\* max(0, 8 - insurance / income * 20) if income > 0 else 8
InsuranceRisk(d) ==
    LET income == Get(d, "net_monthly_income", 0)
        insurance == Get(d, "insurance", 0)
    IN  IF income > 0
        THEN Max(Num(0), <<8 * income - 20 * insurance, income>>)
        ELSE Num(8)

\* The fallback of Debt Risk copied into Expense Management: 10 without income.
ExpenseRiskMaximal(d) ==
    LET income == Get(d, "net_monthly_income", 0)
        expenses == Get(d, "fixed_costs_total", 0)
    IN  IF income > 0 THEN Min(Num(10), <<expenses * 12, income>>) ELSE Num(10)

\* min(10, expenses / income * 12) if income > 0 else 8
ExpenseRisk(d) ==
    LET income == Get(d, "net_monthly_income", 0)
        expenses == Get(d, "fixed_costs_total", 0)
    IN  IF income > 0 THEN Min(Num(10), <<expenses * 12, income>>) ELSE Num(8)

calculate_risk_factors(d) ==
    [f \in RiskFactorNames |->
        CASE f = "Debt Risk" -> DebtRisk(d)
          [] f = "Emergency Fund" -> EmergencyFundRisk(d)
          [] f = "Investment Risk" -> InvestmentRisk(d)
          [] f = "Insurance Coverage" -> InsuranceRisk(d)
          [] f = "Expense Management" -> ExpenseRisk(d)]

(***************************************************************************)
(* Dashboard.render_risk_tab: the label shown with each factor and the     *)
(* mitigation suggestions.                                                 *)
(***************************************************************************)
\* "High" if score > 7 else "Medium" if score > 4 else "Low"
RiskLevel(score) ==
    IF Lt(Num(7), score) THEN "High"
    ELSE IF Lt(Num(4), score) THEN "Medium"
    ELSE "Low"

\* The factors tested for a suggestion, in the order of the tests.
SuggestedFactors == <<"Debt Risk", "Emergency Fund", "Investment Risk", "Insurance Coverage">>

SuggestionOf(f) ==
    CASE f = "Debt Risk" -> "Consider debt consolidation or faster repayment strategies"
      [] f = "Emergency Fund" -> "Build emergency fund to cover 6 months of expenses"
      [] f = "Investment Risk" -> "Diversify your investment portfolio"
      [] f = "Insurance Coverage" -> "Review and increase your insurance coverage"

\* The bound of the test `risk_factors.get(f, 0) > ...` of each suggestion.
SuggestionThreshold(f) == IF f = "Investment Risk" THEN 7 ELSE 6

\* suggestions = []; if risk_factors.get(f, 0) > ...: suggestions.append(...)
Suggestions(risk_factors) ==
    LET Emitted(f) == Lt(Num(SuggestionThreshold(f)), Get(risk_factors, f, Num(0)))
        chosen == SelectSeq(SuggestedFactors, Emitted)
    IN  [i \in DOMAIN chosen |-> SuggestionOf(chosen[i])]

\* What the tab shows: the factors, the label of each, the suggestions.
render_risk_tab(d) ==
    LET risk_factors == calculate_risk_factors(d)
    IN  [risk_factors |-> risk_factors,
         risk_level |-> [f \in DOMAIN risk_factors |-> RiskLevel(risk_factors[f])],
         suggestions |-> Suggestions(risk_factors)]

(***************************************************************************)
(* DataPreprocessor.calculate_financial_ratios                             *)
(***************************************************************************)
RatioNames == {"tax_efficiency", "expense_ratio", "savings_rate", "debt_to_income",
               "investment_allocation", "emergency_fund_months"}

\* The misplaced guard of a copied block: expense_ratio under the test of
\* tax_efficiency.
RatioPresentCopiedGuard(d, r) ==
    CASE r \in {"tax_efficiency", "expense_ratio"} -> Get(d, "gross_monthly_income", 0) > 0
      [] r \in {"savings_rate", "debt_to_income"} -> Get(d, "net_monthly_income", 0) > 0
      [] r = "investment_allocation" -> Get(d, "assets_total", 0) > 0
      [] r = "emergency_fund_months" -> Get(d, "fixed_costs_total", 0) > 0

\* Guards that test the denominator against 0 only.
RatioPresentNonZero(d, r) ==
    CASE r = "tax_efficiency" -> Get(d, "gross_monthly_income", 0) # 0
      [] r \in {"expense_ratio", "savings_rate", "debt_to_income"} ->
            Get(d, "net_monthly_income", 0) # 0
      [] r = "investment_allocation" -> Get(d, "assets_total", 0) # 0
      [] r = "emergency_fund_months" -> Get(d, "fixed_costs_total", 0) # 0

\* The `if` guarding each assignment to ratios[...].
RatioPresent(d, r) ==
    CASE r = "tax_efficiency" -> Get(d, "gross_monthly_income", 0) > 0
      [] r \in {"expense_ratio", "savings_rate", "debt_to_income"} ->
            Get(d, "net_monthly_income", 0) > 0
      [] r = "investment_allocation" -> Get(d, "assets_total", 0) > 0
      [] r = "emergency_fund_months" -> Get(d, "fixed_costs_total", 0) > 0

\* The value assigned to ratios[r]; the denominators are taken only under
\* the guards, the IF keeps the pair a number elsewhere.
RatioValue(d, r) ==
    LET net_income == Get(d, "net_monthly_income", 0)
        gross_income == Get(d, "gross_monthly_income", 0)
        fixed_costs == Get(d, "fixed_costs_total", 0)
        savings == Get(d, "savings_total", 0)
        debts == Get(d, "debts_total", 0)
        investments == Get(d, "investments_total", 0)
        assets == Get(d, "assets_total", 0)
        emergency_fund == Get(d, "emergency_fund", 0)
    IN  CASE r = "tax_efficiency" -> <<net_income, gross_income>>
          [] r = "expense_ratio" -> <<fixed_costs, net_income>>
          [] r = "savings_rate" -> <<savings, 12 * net_income>>
          [] r = "debt_to_income" -> <<debts, net_income * 12>>
          [] r = "investment_allocation" -> <<investments, assets>>
          [] r = "emergency_fund_months" -> <<emergency_fund, fixed_costs>>

calculate_financial_ratios(d) ==
    [r \in {x \in RatioNames : RatioPresent(d, x)} |-> RatioValue(d, r)]

(***************************************************************************)
(* Profiles given to the scoring functions.                                *)
(***************************************************************************)
MaxUnits == 3

MaxRatioUnits == 1

\* The amounts of a field are multiples of a unit chosen so that the
\* quotients of the code fall on both sides of each of its thresholds.
Unit(k) ==
    CASE k = "assets_total" -> 10
      [] k \in {"debts_total", "emergency_fund", "investments_total"} -> 3
      [] OTHER -> 1

\* The mapping chosen by g: key k with g[k] units, missing when g[k] = hi + 1.
ProfileOf(g, hi) == [k \in {j \in DOMAIN g : g[j] <= hi} |-> Unit(k) * g[k]]

\* Every choice of a mapping with any subset of keys, each key with an
\* amount of lo .. hi units.
Choices(keys, lo, hi) == [keys -> lo..(hi + 1)]

ScoreKeys == {"net_monthly_income", "savings_total", "debts_total", "emergency_fund",
              "fixed_costs_total", "investments_total", "assets_total"}

RiskKeys == {"net_monthly_income", "debts_total", "emergency_fund",
             "fixed_costs_total", "investments_total", "assets_total", "insurance"}

RatioKeys == {"net_monthly_income", "gross_monthly_income", "savings_total",
              "debts_total", "emergency_fund", "fixed_costs_total",
              "investments_total", "assets_total"}

\* The fields of a profile that hold a category or a text, not a number.
CategoricalFields == {"income_type", "class", "owns_home", "user_goals",
                      "financial_stress", "last_updated", "timestamp", "user_id"}

NonNegative(d) == \A k \in DOMAIN d \ CategoricalFields : d[k] >= 0

\* DataInput.load_sample_data: sample_data
SampleData ==
    [household_size |-> 4, number_of_kids |-> 2, age |-> 35,
     income_type |-> "dual_income", class |-> "middle", owns_home |-> "yes",
     gross_monthly_income |-> 80000, net_monthly_income |-> 65000,
     assets_total |-> 2500000, investments_total |-> 400000,
     savings_total |-> 150000, emergency_fund |-> 200000,
     debts_total |-> 800000, total_net_worth |-> 2250000,
     rent_mortgage |-> 20000, utilities |-> 3000, insurance |-> 4000,
     transportation |-> 8000, groceries |-> 12000, clothes |-> 3000,
     phone |-> 2000, subscriptions |-> 1500, miscellaneous |-> 5000,
     fixed_costs_total |-> 58500, user_goals |-> "Retirement savings",
     financial_stress |-> "no"]

NoResult == [fn |-> "none", score |-> Num(0), map |-> EmptyMap]

(***************************************************************************)
(*          FirebaseService on the in-memory store (MockFirestore)         *)
(***************************************************************************)
Users == {"u1", "u2"}

MaxClock == 3

StoreKeys == {"savings_total", "debts_total"}

\* MockDocument.set(data, merge)
MockDocumentSet(collection_data, doc_id, data, merge) ==
    IF merge /\ doc_id \in DOMAIN collection_data
    THEN [collection_data EXCEPT ![doc_id] = Update(@, data)]
    ELSE Update(collection_data, [i \in {doc_id} |-> data])

NotLoaded == [done |-> FALSE, found |-> FALSE, data |-> EmptyMap]

NotSubmitted == [done |-> FALSE, data |-> EmptyMap]

\* FirebaseService.save_user_data(user_id, user_data): the mapping passed is
\* stamped in place, then written with merge=True.  submitted is the caller's
\* mapping as the call leaves it.
SaveUserData ==
    /\ now < MaxClock
    /\ \E u \in Users, g \in Choices(StoreKeys, 0, 1) :
        LET d == ProfileOf(g, 1)
            stamped == Update(d, [k \in {"timestamp", "user_id"} |->
                                     IF k = "timestamp" THEN now ELSE u])
        IN  /\ store' = MockDocumentSet(store, u, stamped, TRUE)
            /\ submitted' = [submitted EXCEPT ![u] = [done |-> TRUE, data |-> stamped]]
            /\ loaded' = [loaded EXCEPT ![u] = NotLoaded]
    /\ now' = now + 1
    /\ UNCHANGED <<session_state, chatVars, predictorVars, engineVars>>

\* FirebaseService.get_user_data(user_id): doc.to_dict() if doc.exists() else None
GetUserData ==
    /\ \E u \in Users :
        loaded' = [loaded EXCEPT ![u] =
                      [done |-> TRUE,
                       found |-> u \in DOMAIN store,
                       data |-> IF u \in DOMAIN store THEN store[u] ELSE EmptyMap]]
    /\ UNCHANGED <<store, now, submitted, session_state, chatVars, predictorVars, engineVars>>

(***************************************************************************)
(*        DataInput: the profile of the session (st.session_state)         *)
(***************************************************************************)
\* Each session has its own user id (DataInput.__init__).
SessionOf(u) == IF u = "u1" THEN "s1" ELSE "s2"

\* The amounts typed into a number input of the form: min_value=0.
FormAmounts == {0, 1}

\* The clock at which the form is submitted for the last time.
MaxSubmits == 2

\* The number inputs of the form in which the model's user types an amount;
\* the other inputs are submitted with the value the form shows.
FormInputs == {"debts_total", "rent_mortgage"}

ExpenseCategories == {"rent_mortgage", "utilities", "insurance", "transportation",
                      "groceries", "clothes", "phone", "subscriptions", "miscellaneous"}

\* The amounts a user enters, as opposed to the totals computed from them.
MonetaryFields == {"gross_monthly_income", "net_monthly_income", "assets_total",
                   "investments_total", "savings_total", "emergency_fund",
                   "debts_total", "fixed_costs_total"} \cup ExpenseCategories

\* st.number_input(min_value=0, value=<the field of the session profile, or 0>):
\* the inputs of the form and the value each one shows.
NumberInputs == (MonetaryFields \ {"fixed_costs_total"})

Shown(current, k) == Get(current, k, 0)

\* A number input whose value is below its min_value raises: the form is
\* rendered only when every value it shows is >= 0.
FormRenders(current) == \A k \in NumberInputs : Shown(current, k) >= 0

\* The mapping render passes to save_user_data when the form is submitted
\* with the amounts v typed over the values shown for the profile current.
FormData(v, current) ==
    LET In(k) == IF k \in DOMAIN v THEN v[k] ELSE Shown(current, k)
        net_worth == In("assets_total") + In("investments_total") + In("savings_total")
                        - In("debts_total")
        total_expenses == In("rent_mortgage") + In("utilities") + In("insurance")
                            + In("transportation") + In("groceries") + In("clothes")
                            + In("phone") + In("subscriptions") + In("miscellaneous")
    IN  [household_size |-> Get(current, "household_size", 1),
         number_of_kids |-> Get(current, "number_of_kids", 0),
         age |-> Get(current, "age", 30),
         income_type |-> IF Get(current, "income_type", "single_income") = "single_income"
                         THEN "single_income" ELSE "dual_income",
         class |-> "middle",
         owns_home |-> IF Get(current, "owns_home", "no") = "yes" THEN "yes" ELSE "no",
         gross_monthly_income |-> In("gross_monthly_income"),
         net_monthly_income |-> In("net_monthly_income"),
         assets_total |-> In("assets_total"),
         investments_total |-> In("investments_total"),
         savings_total |-> In("savings_total"),
         emergency_fund |-> In("emergency_fund"),
         debts_total |-> In("debts_total"),
         total_net_worth |-> net_worth,
         rent_mortgage |-> In("rent_mortgage"), utilities |-> In("utilities"),
         insurance |-> In("insurance"), transportation |-> In("transportation"),
         groceries |-> In("groceries"), clothes |-> In("clothes"),
         phone |-> In("phone"), subscriptions |-> In("subscriptions"),
         miscellaneous |-> In("miscellaneous"),
         fixed_costs_total |-> total_expenses,
         user_goals |-> "Build emergency fund", financial_stress |-> "no"]

\* The columns of an uploaded file that the model varies.
CsvKeys == {"assets_total"}

\* No other interaction of the session is handled before the script run of
\* the previous one is over.
ScriptIdle(u) == pc[SessionOf(u)] \in {"idle", "done"}

\* The profile of the session replaced only once the store accepted the save.
SubmitFormPersistFirst(u) ==
    /\ ScriptIdle(u)
    /\ FormRenders(session_state[u])
    /\ now < MaxSubmits
    /\ \E v \in [FormInputs -> FormAmounts], saved \in BOOLEAN :
        LET s == SessionOf(u)
            dated == Update(FormData(v, session_state[u]),
                            [k \in {"last_updated"} |-> now])
            stamped == Update(dated, [k \in {"timestamp", "user_id"} |->
                                         IF k = "timestamp" THEN now ELSE u])
        IN  /\ session_state' = IF saved THEN [session_state EXCEPT ![u] = stamped]
                                ELSE session_state
            /\ store' = IF saved THEN MockDocumentSet(store, u, stamped, TRUE) ELSE store
            /\ op' = [op EXCEPT ![s] = "save_user_data"]
            /\ sub' = [sub EXCEPT ![s] = "save_user_data"]
            /\ user_data' = [user_data EXCEPT ![s] = stamped]
            /\ pc' = [pc EXCEPT ![s] = IF saved THEN "check" ELSE "done"]
            /\ ret' = [ret EXCEPT ![s] = NoReturn]
            /\ risk_score' = [risk_score EXCEPT ![s] = 0]
            /\ investment_pred' = [investment_pred EXCEPT ![s] = 0]
            /\ features' = [features EXCEPT ![s] = NoFeatures]
    /\ now' = now + 1
    /\ UNCHANGED <<submitted, loaded, chatVars>>
    /\ UNCHANGED <<is_trained, models, training_data, label_encoders, engineVars>>

\* The form is submitted: DataInput.save_user_data(user_data) stamps
\* last_updated, puts the mapping in the session, and passes the same mapping
\* to FirebaseService.save_user_data, which stamps timestamp and user_id on
\* it and writes it with merge=True; when the save succeeded the is_trained
\* test follows.
SubmitForm(u) ==
    /\ ScriptIdle(u)
    /\ FormRenders(session_state[u])
    /\ now < MaxSubmits
    /\ \E v \in [FormInputs -> FormAmounts], saved \in BOOLEAN :
        LET s == SessionOf(u)
            dated == Update(FormData(v, session_state[u]),
                            [k \in {"last_updated"} |-> now])
            stamped == Update(dated, [k \in {"timestamp", "user_id"} |->
                                         IF k = "timestamp" THEN now ELSE u])
        IN  /\ session_state' = [session_state EXCEPT ![u] = stamped]
            /\ store' = IF saved THEN MockDocumentSet(store, u, stamped, TRUE) ELSE store
            /\ op' = [op EXCEPT ![s] = "save_user_data"]
            /\ sub' = [sub EXCEPT ![s] = "save_user_data"]
            /\ user_data' = [user_data EXCEPT ![s] = stamped]
            /\ pc' = [pc EXCEPT ![s] = IF saved THEN "check" ELSE "done"]
            /\ ret' = [ret EXCEPT ![s] = NoReturn]
            /\ risk_score' = [risk_score EXCEPT ![s] = 0]
            /\ investment_pred' = [investment_pred EXCEPT ![s] = 0]
            /\ features' = [features EXCEPT ![s] = NoFeatures]
    /\ now' = now + 1
    /\ UNCHANGED <<submitted, loaded, chatVars>>
    /\ UNCHANGED <<is_trained, models, training_data, label_encoders, engineVars>>

\* DataInput.load_user_data: the stored document replaces the profile of
\* the session when it is not empty.
LoadUserData(u) ==
    /\ ScriptIdle(u)
    /\ LET data == IF u \in DOMAIN store THEN store[u] ELSE EmptyMap
       IN  session_state' = [session_state EXCEPT ![u] =
                                IF data # EmptyMap THEN data ELSE @]
    /\ UNCHANGED <<store, now, submitted, loaded, chatVars, predictorVars, engineVars>>

\* DataInput.clear_user_data, then main on the rerun: user_data = {}
ClearUserData(u) ==
    /\ ScriptIdle(u)
    /\ session_state' = [session_state EXCEPT ![u] = EmptyMap]
    /\ UNCHANGED <<store, now, submitted, loaded, chatVars, predictorVars, engineVars>>

\* DataInput.load_sample_data
LoadSampleData(u) ==
    /\ ScriptIdle(u)
    /\ session_state' = [session_state EXCEPT ![u] = SampleData]
    /\ UNCHANGED <<store, now, submitted, loaded, chatVars, predictorVars, engineVars>>

\* DataInput.import_from_csv: every cell of the first row that is not NaN
\* is copied into a new mapping, which replaces the profile of the session.
ImportFromCsv(u) ==
    /\ ScriptIdle(u)
    /\ \E g \in Choices(CsvKeys, -1, 1) :
           session_state' = [session_state EXCEPT ![u] = ProfileOf(g, 1)]
    /\ UNCHANGED <<store, now, submitted, loaded, chatVars, predictorVars, engineVars>>

(***************************************************************************)
(*  Chat history: FirebaseService.save_chat_history / get_chat_history on  *)
(*  the in-memory store, and the handlers of ChatInterface that call them. *)
(***************************************************************************)
\* The longest list of messages a session holds.
MaxMessages == 2

\* A message is modelled by its role.  The lists passed as chat_history:
\* st.session_state.chat_history, which main sets to [] and login to the
\* messages it restored.
Histories == {<<>>, <<"user", "assistant">>,
              <<"user", "assistant", "user", "assistant">>}

\* MockFirestore.collection(name): MockCollection.__init__ adds the empty
\* collection to the data when it is not there.
OpenCollection(data, name) ==
    IF name \in DOMAIN data THEN data ELSE Update(data, [n \in {name} |-> EmptyMap])

\* The collection save_chat_history writes.
ChatWriteCollection == "chats"

\* get_chat_history reading the collection that save_chat_history writes.
ChatReadCollectionOfSave == "chats"

\* The collection get_chat_history reads.
ChatReadCollection == "chat_history"

\* FirebaseService.save_chat_history(user_id, chat_history) at clock t: the
\* data of the store after the call.
save_chat_history(data, user_id, chat_history, t) ==
    LET chat_data == [user_id |-> user_id, chat_history |-> chat_history, timestamp |-> t]
        opened == OpenCollection(data, ChatWriteCollection)
    IN  [opened EXCEPT ![ChatWriteCollection] = MockDocumentSet(@, user_id, chat_data, TRUE)]

\* FirebaseService.get_chat_history(user_id): the list returned,
\* doc.to_dict().get('chat_history', []) if doc.exists() else []
get_chat_history(data, user_id) ==
    LET docs == OpenCollection(data, ChatReadCollection)[ChatReadCollection]
    IN  IF user_id \in DOMAIN docs THEN Get(docs[user_id], "chat_history", <<>>) ELSE <<>>

NotReturned == [done |-> FALSE, history |-> <<>>, at |-> 0]

\* A call of FirebaseService.save_chat_history.
SaveChatHistory ==
    /\ now < MaxClock
    /\ \E u \in Users, h \in Histories :
           collections' = save_chat_history(collections, u, h, now)
    /\ now' = now + 1
    /\ UNCHANGED <<store, submitted, loaded, session_state, chat_messages, chat_returned>>
    /\ UNCHANGED <<predictorVars, engineVars>>

\* A call of FirebaseService.get_chat_history.
GetChatHistory ==
    /\ \E u \in Users :
           chat_returned' = [chat_returned EXCEPT ![u] =
                                [done |-> TRUE,
                                 history |-> get_chat_history(collections, u),
                                 at |-> now]]
    /\ collections' = OpenCollection(collections, ChatReadCollection)
    /\ UNCHANGED <<store, now, submitted, loaded, session_state, chat_messages>>
    /\ UNCHANGED <<predictorVars, engineVars>>

\* ChatInterface.load_chat_history: the stored history replaces the messages
\* of the session when it is not empty and longer than they are.
LoadChatHistory(u) ==
    /\ LET chat_history == get_chat_history(collections, u)
       IN  /\ chat_returned' = [chat_returned EXCEPT ![u] =
                                   [done |-> TRUE, history |-> chat_history, at |-> now]]
           /\ chat_messages' = [chat_messages EXCEPT ![u] =
                                   IF chat_history # <<>> /\ Len(chat_history) > Len(@)
                                   THEN chat_history ELSE @]
    /\ collections' = OpenCollection(collections, ChatReadCollection)
    /\ UNCHANGED <<store, now, submitted, loaded, session_state>>
    /\ UNCHANGED <<predictorVars, engineVars>>

\* ChatInterface.handle_user_message: the question and the answer are
\* appended to the messages of the session, then
\* ChatInterface.save_chat_history passes st.session_state.chat_history
\* to FirebaseService.save_chat_history.
HandleUserMessage(u) ==
    /\ now < MaxClock
    /\ Len(chat_messages[u]) < MaxMessages
    /\ chat_messages' = [chat_messages EXCEPT ![u] = @ \o <<"user", "assistant">>]
    /\ \E h \in Histories : collections' = save_chat_history(collections, u, h, now)
    /\ now' = now + 1
    /\ UNCHANGED <<store, submitted, loaded, session_state, chat_returned>>
    /\ UNCHANGED <<predictorVars, engineVars>>

\* "Clear Chat History": st.session_state.chat_messages = [], then
\* ChatInterface.save_chat_history.
ClearChatHistory(u) ==
    /\ now < MaxClock
    /\ chat_messages' = [chat_messages EXCEPT ![u] = <<>>]
    /\ \E h \in Histories : collections' = save_chat_history(collections, u, h, now)
    /\ now' = now + 1
    /\ UNCHANGED <<store, submitted, loaded, session_state, chat_returned>>
    /\ UNCHANGED <<predictorVars, engineVars>>

(***************************************************************************)
(* Specifications of the scoring functions and of the store.               *)
(***************************************************************************)
IdleEngine ==
    /\ profile = EmptyMap
    /\ result = NoResult
    /\ previous = NoResult

IdleStore ==
    /\ store = EmptyMap
    /\ now = 0
    /\ submitted = [u \in Users |-> NotSubmitted]
    /\ loaded = [u \in Users |-> NotLoaded]
    /\ session_state = [u \in Users |-> EmptyMap]
    /\ collections = EmptyMap
    /\ chat_messages = [u \in Users |-> <<>>]
    /\ chat_returned = [u \in Users |-> NotReturned]

\* The score written back into the mapping it was computed from.
CalculateHealthScoreStored ==
    /\ result' = [fn |-> "calculate_financial_health_score",
                  score |-> calculate_financial_health_score(profile),
                  map |-> EmptyMap]
    /\ previous' = result
    /\ profile' = Update(profile, [k \in {"health_checked"} |-> 1])
    /\ UNCHANGED <<predictorVars, storeVars>>

CalculateHealthScore ==
    /\ result' = [fn |-> "calculate_financial_health_score",
                  score |-> calculate_financial_health_score(profile),
                  map |-> EmptyMap]
    /\ previous' = result
    /\ UNCHANGED <<profile, predictorVars, storeVars>>

CalculateRiskFactors ==
    /\ result' = [fn |-> "calculate_risk_factors",
                  score |-> Num(0),
                  map |-> calculate_risk_factors(profile)]
    /\ previous' = result
    /\ UNCHANGED <<profile, predictorVars, storeVars>>

\* The risk tab of the dashboard is rendered for the profile.
RenderRiskTab ==
    /\ result' = [fn |-> "render_risk_tab",
                  score |-> Num(0),
                  map |-> render_risk_tab(profile)]
    /\ previous' = result
    /\ UNCHANGED <<profile, predictorVars, storeVars>>

CalculateFinancialRatios ==
    /\ result' = [fn |-> "calculate_financial_ratios",
                  score |-> Num(0),
                  map |-> calculate_financial_ratios(profile)]
    /\ previous' = result
    /\ UNCHANGED <<profile, predictorVars, storeVars>>

\* The profiles scored by the dashboard: any amounts, negative ones included
\* (import_from_csv copies any number of the file), and the sample profile.
InitScore ==
    /\ InitPredictor
    /\ IdleStore
    /\ \/ \E g \in Choices(ScoreKeys, -1, MaxUnits) : profile = ProfileOf(g, MaxUnits)
       \/ profile = SampleData
    /\ result = NoResult
    /\ previous = NoResult

SpecScore == InitScore /\ [][CalculateHealthScore]_vars

\* The dashboard calls both scoring functions on the profile of the
\* session, again at every rerun of the page.
InitPure ==
    /\ InitPredictor
    /\ IdleStore
    /\ \E g \in Choices(ScoreKeys \cup {"insurance"}, 0, MaxRatioUnits) :
           profile = ProfileOf(g, MaxRatioUnits)
    /\ result = NoResult
    /\ previous = NoResult

NextPure == CalculateHealthScore \/ CalculateRiskFactors

SpecPure == InitPure /\ [][NextPure]_vars

\* import_from_csv copies any number of the file into the profile.
InitRisk ==
    /\ InitPredictor
    /\ IdleStore
    /\ \E g \in Choices(RiskKeys, -1, MaxUnits) : profile = ProfileOf(g, MaxUnits)
    /\ result = NoResult
    /\ previous = NoResult

SpecRisk == InitRisk /\ [][CalculateRiskFactors]_vars

SpecRiskTab == InitRisk /\ [][RenderRiskTab]_vars

InitRatios ==
    /\ InitPredictor
    /\ IdleStore
    /\ \E g \in Choices(RatioKeys, -1, MaxRatioUnits) : profile = ProfileOf(g, MaxRatioUnits)
    /\ result = NoResult
    /\ previous = NoResult

SpecRatios == InitRatios /\ [][CalculateFinancialRatios]_vars

InitStore ==
    /\ InitPredictor
    /\ IdleEngine
    /\ IdleStore

NextStore == SaveUserData \/ GetUserData

SpecStore == InitStore /\ [][NextStore]_vars

NextChat ==
    \/ SaveChatHistory
    \/ GetChatHistory
    \/ \E u \in Users :
          \/ LoadChatHistory(u)
          \/ HandleUserMessage(u)
          \/ ClearChatHistory(u)

SpecChat == InitStore /\ [][NextChat]_vars

\* One session at the data input page; what the submission of the form
\* starts in the predictor runs to its end.
NextInput ==
    \/ SubmitForm("u1")
    \/ LoadUserData("u1")
    \/ ClearUserData("u1")
    \/ LoadSampleData("u1")
    \/ ImportFromCsv("u1")
    \/ Check("s1")
    \/ LoadTrainingData("s1")
    \/ TestEncoder("s1")
    \/ NewEncoder("s1")
    \/ FitEncoder("s1")
    \/ PreprocessData("s1")
    \/ AssignModel("s1")
    \/ FitModelStep("s1")
    \/ FinishTraining("s1")

SpecInput == InitStore /\ [][NextInput]_vars

(***************************************************************************)
(* Specifications of the predictor.                                        *)
(***************************************************************************)
Init ==
    /\ InitPredictor
    /\ IdleEngine
    /\ IdleStore

\* One request at a time: the calls of one session, each run to its end.
Next ==
    \/ Call("s1", PredictorProfiles)
    \/ Check("s1")
    \/ LoadTrainingData("s1")
    \/ TestEncoder("s1")
    \/ NewEncoder("s1")
    \/ FitEncoder("s1")
    \/ PreprocessData("s1")
    \/ AssignModel("s1")
    \/ FitModelStep("s1")
    \/ FinishTraining("s1")
    \/ Infer("s1", RegressionValues, RiskValues)

Spec == Init /\ [][Next]_vars

\* The sessions of the application share the predictor and run in threads
\* of one process: their calls interleave statement by statement.
ConcurrentProfiles == {[k \in {"household_size"} |-> 1]}

NextConcurrent ==
    \E s \in Sessions :
        \/ Call(s, ConcurrentProfiles)
        \/ Check(s)
        \/ LoadTrainingData(s)
        \/ TestEncoder(s)
        \/ NewEncoder(s)
        \/ FitEncoder(s)
        \/ PreprocessData(s)
        \/ AssignModel(s)
        \/ FitModelStep(s)
        \/ FinishTraining(s)
        \/ Infer(s, {7}, {30})

SpecConcurrent == Init /\ [][NextConcurrent]_vars

(***************************************************************************)
(*                               Properties                                *)
(***************************************************************************)

\* C1: every call of generate_predictions returns a mapping with exactly the
\* keys 1_year, 3_year and 10_year, each a complete record; it never returns
\* an empty or partial mapping and never raises, whatever the predictor state.
C1_ValidPredictionSet ==
    \A s \in Sessions :
        (pc[s] = "done" /\ op[s] = "generate_predictions") =>
            /\ ret[s].kind = "predictions"
            /\ DOMAIN ret[s].predictions = Horizons
            /\ \A h \in Horizons : DOMAIN ret[s].predictions[h] = RecordFields

\* C2: at most one session at a time is inside the training run of the
\* shared predictor.
C2_SingleFlight == Cardinality({s \in Sessions : InTrainModels(s)}) <= 1

\* C3: the health score of a profile without negative amounts is in [0, 100],
\* whichever fields are missing and however large the amounts.
C3_ScoreInRange ==
    (result.fn = "calculate_financial_health_score" /\ NonNegative(profile)) =>
        /\ Le(Num(0), result.score)
        /\ Le(result.score, Num(100))

\* C3, its case: the score of a profile whose savings exceed the cap of the
\* savings component, with a field missing.
C3_Witness ==
    /\ result.fn = "calculate_financial_health_score"
    /\ NonNegative(profile)
    /\ Get(profile, "net_monthly_income", 0) > 0
    /\ Get(profile, "savings_total", 0) * 125 > 25 * 12 * Get(profile, "net_monthly_income", 0)
    /\ "debts_total" \notin DOMAIN profile

\* C4: for every profile the risk factors are a mapping with exactly the five
\* category keys, every value in [0, 10].
C4_RiskFactorsInRange ==
    result.fn = "calculate_risk_factors" =>
        /\ DOMAIN result.map = RiskFactorNames
        /\ \A f \in RiskFactorNames :
              Le(Num(0), result.map[f]) /\ Le(result.map[f], Num(10))

\* C5 as stated: when assess_risk yields 0.5 inside generate_predictions, the
\* statuses are Moderate for 1 year, Moderate for 3 years, Good for 10 years.
C5_DefaultRiskTenYearGood ==
    \A s \in Sessions :
        (pc[s] = "done" /\ op[s] = "generate_predictions" /\ risk_score[s] = 50) =>
            /\ ret[s].kind = "predictions"
            /\ DOMAIN ret[s].predictions = Horizons
            /\ ret[s].predictions["1_year"].health_status = "Moderate"
            /\ ret[s].predictions["3_year"].health_status = "Moderate"
            /\ ret[s].predictions["10_year"].health_status = "Good"

\* C5 as amended: when assess_risk yields 0.5 inside generate_predictions, the
\* statuses are Moderate for 1 year, 3 years and 10 years (0.5 is not < 0.5).
C5_DefaultRiskAllModerate ==
    \A s \in Sessions :
        (pc[s] = "done" /\ op[s] = "generate_predictions" /\ risk_score[s] = 50) =>
            /\ ret[s].kind = "predictions"
            /\ DOMAIN ret[s].predictions = Horizons
            /\ ret[s].predictions["1_year"].health_status = "Moderate"
            /\ ret[s].predictions["3_year"].health_status = "Moderate"
            /\ ret[s].predictions["10_year"].health_status = "Moderate"

\* C5, its case: generate_predictions has returned records computed from the
\* neutral default of assess_risk (no feature vector for the empty mapping).
C5_Witness ==
    \E s \in Sessions :
        /\ pc[s] = "done"
        /\ op[s] = "generate_predictions"
        /\ user_data[s] = EmptyMap
        /\ risk_score[s] = 50
        /\ ret[s].kind = "predictions"
        /\ DOMAIN ret[s].predictions = Horizons

\* C6 as stated: with net_monthly_income = 0 the ratios contain none of
\* tax_efficiency, expense_ratio, savings_rate, debt_to_income.
C6_NoIncomeOmitsFour ==
    (result.fn = "calculate_financial_ratios"
        /\ Get(profile, "net_monthly_income", 0) = 0) =>
        DOMAIN result.map \cap {"tax_efficiency", "expense_ratio", "savings_rate",
                                "debt_to_income"} = {}

\* C6 as amended: with net_monthly_income = 0 the ratios contain none of
\* expense_ratio, savings_rate, debt_to_income; tax_efficiency is present
\* exactly when gross_monthly_income > 0, and is then 0.
C6_NoIncomeOmitsThree ==
    (result.fn = "calculate_financial_ratios"
        /\ Get(profile, "net_monthly_income", 0) = 0) =>
        /\ DOMAIN result.map \cap {"expense_ratio", "savings_rate", "debt_to_income"} = {}
        /\ "tax_efficiency" \in DOMAIN result.map
              <=> Get(profile, "gross_monthly_income", 0) > 0
        /\ "tax_efficiency" \in DOMAIN result.map
              => Eq(result.map["tax_efficiency"], Num(0))

\* C6, its case: the ratios of a profile with no net income and a gross income.
C6_Witness ==
    /\ result.fn = "calculate_financial_ratios"
    /\ Get(profile, "net_monthly_income", 0) = 0
    /\ Get(profile, "gross_monthly_income", 0) > 0

\* C7: what get_user_data returns after save_user_data is the mapping last
\* submitted for that user: same keys, same values, nothing left over.
C7_RoundTrip ==
    \A u \in Users :
        (submitted[u].done /\ loaded[u].done) =>
            /\ loaded[u].found
            /\ loaded[u].data = submitted[u].data

\* C8: after a training run that failed, the predictor is untrained and no
\* fitted model is available to inference: the inference operations return
\* their neutral defaults.
C8_FailedTrainingLeavesNoModel ==
    \A s \in Sessions :
        (pc[s] = "done" /\ ~is_trained) =>
            /\ \A m \in ModelNames : models[m] # "fitted"
            /\ (op[s] \in PredictOps /\ ret[s].kind = "value")
                  => ret[s].value = NeutralDefault(op[s])

\* C9: a training run is started only by the is_trained test of an operation
\* that finds is_trained false; once a run has succeeded is_trained stays true
\* and no operation starts another run.
C9_LazyTrainingOnce ==
    [][\A s \in Sessions :
          /\ (pc'[s] = "load" /\ pc[s] # "load") => (pc[s] = "check" /\ ~is_trained)
          /\ is_trained => /\ is_trained'
                           /\ pc'[s] \notin {"load"} \cup PreprocessPc
                           /\ ~InTrainModels(s)']_vars

\* C9, its case: an inference operation called after training has succeeded
\* is at its is_trained test.
C9_Witness ==
    /\ is_trained
    /\ pc["s1"] = "check"
    /\ op["s1"] \in PredictOps

\* C10: an inference operation never raises; it returns its neutral default
\* when there is no feature vector or no fitted model to predict with, and
\* assess_risk returns a probability.
C10_NeutralDefaultInsteadOfFailing ==
    \A s \in Sessions :
        (pc[s] = "done" /\ op[s] \in PredictOps) =>
            /\ ret[s].kind = "value"
            /\ (user_data[s] = EmptyMap \/ models[ModelOf(op[s])] # "fitted")
                  => ret[s].value = NeutralDefault(op[s])
            /\ op[s] = "assess_risk" => (0 <= ret[s].value /\ ret[s].value <= 100)

\* C11: an inference operation given a categorical value that its fitted
\* encoder has not seen does not raise, and encodes the value with the code
\* of the encoder's first class; a value the encoder has seen is encoded
\* with the code the encoder gives it.
C11_UnseenCategoryFirstClass ==
    \A s \in Sessions :
        (/\ pc[s] = "done"
         /\ op[s] \in PredictOps
         /\ user_data[s] # EmptyMap
         /\ \A c \in EncodedCols : label_encoders[c].state = "fitted") =>
            \A c \in EncodedCols :
                LET enc == label_encoders[c]
                    v == Get(user_data[s], c, CategoricalDefault(c))
                IN  IF Seen(enc, v)
                    THEN features[s][c] = Transform(enc, v)
                    ELSE /\ ret[s].kind = "value"
                         /\ features[s][c] = Transform(enc, enc.classes_[1])

\* C12: an encoder that has been fitted is never refitted or replaced: its
\* entry in label_encoders and its classes_ stay as the fit left them.
C12_EncoderFittedOnce ==
    [][\A c \in EncodedCols :
          label_encoders[c].state = "fitted" => label_encoders'[c] = label_encoders[c]]_vars

\* C13: the health score of a profile without negative amounts is the sum of
\* 20 for an income, min(25, 125 x savings rate), the debt tier 20/15/10/5,
\* the emergency tier 15/10/5/0 and the investment tier 20/15/10/5 (0 without
\* fixed costs, without assets); the sample profile scores 74.04 to two
\* decimals.
C13_ScoreIsSumOfComponents ==
    (result.fn = "calculate_financial_health_score" /\ NonNegative(profile)) =>
        LET income == Get(profile, "net_monthly_income", 0)
            savings == Get(profile, "savings_total", 0)
            debts == Get(profile, "debts_total", 0)
            emergency == Get(profile, "emergency_fund", 0)
            fixed == Get(profile, "fixed_costs_total", 0)
            investments == Get(profile, "investments_total", 0)
            assets == Get(profile, "assets_total", 0)
            annual == IF income > 0 THEN 12 * income ELSE 1
            debt_tier == IF 10 * debts < 2 * annual THEN 20
                         ELSE IF 10 * debts < 4 * annual THEN 15
                         ELSE IF 10 * debts < 6 * annual THEN 10 ELSE 5
            emergency_tier == IF fixed = 0 THEN 0
                              ELSE IF emergency >= 6 * fixed THEN 15
                              ELSE IF emergency >= 3 * fixed THEN 10
                              ELSE IF emergency >= fixed THEN 5 ELSE 0
            investment_tier == IF assets = 0 THEN 0
                               ELSE IF 100 * investments >= 30 * assets THEN 20
                               ELSE IF 100 * investments >= 15 * assets THEN 15
                               ELSE IF 100 * investments >= 5 * assets THEN 10 ELSE 5
            flat == (IF income > 0 THEN 20 ELSE 0) + debt_tier + emergency_tier
                        + investment_tier
            \* the savings component in units of 1 / annual
            saved == IF income = 0 THEN 0
                     ELSE IF 125 * savings < 25 * annual THEN 125 * savings
                     ELSE 25 * annual
            score == Reduce(result.score)
        IN  /\ score[1] * annual = (flat * annual + saved) * score[2]
            /\ profile = SampleData =>
                  /\ 14807 * score[2] <= 200 * score[1]
                  /\ 200 * score[1] < 14809 * score[2]

\* C13, its case: the score of the sample profile has been computed.
C13_Witness ==
    /\ result.fn = "calculate_financial_health_score"
    /\ profile = SampleData

\* C14: for two profiles without negative amounts that differ only in
\* savings_total, the one with the larger savings_total never scores lower;
\* when both savings rates are in [0, 0.20] the scores differ by 125 times
\* the difference of the rates, the larger one strictly higher when there is
\* an income.
C14_MonotonicInSavings ==
    (result.fn = "calculate_financial_health_score" /\ NonNegative(profile)) =>
        \A more \in 0..(MaxUnits + 1) :
            LET income == Get(profile, "net_monthly_income", 0)
                savings == Get(profile, "savings_total", 0)
                other == Update(profile, [k \in {"savings_total"} |-> more])
                higher == Reduce(calculate_financial_health_score(other))
                score == Reduce(result.score)
            IN  more > savings =>
                    /\ Le(score, higher)
                    /\ (income > 0 /\ 5 * more <= 12 * income) =>
                          /\ Eq(higher, Reduce(Plus(score,
                                    <<125 * (more - savings), 12 * income>>)))
                          /\ Lt(score, higher)
                    /\ income = 0 => Eq(higher, score)

\* C14, its case: the score of a profile with an income and no savings, for
\* which larger savings exist below and above the rate of 0.20.
C14_Witness ==
    /\ result.fn = "calculate_financial_health_score"
    /\ NonNegative(profile)
    /\ Get(profile, "net_monthly_income", 0) = 1
    /\ "savings_total" \in DOMAIN profile
    /\ profile["savings_total"] = 0

\* C15: the savings component is never negative and never above 25: with an
\* income and savings_total <= 0 the score is the sum of the four other
\* components, and for every profile the score exceeds that sum by 25 at most.
C15_SavingsComponentFloor ==
    result.fn = "calculate_financial_health_score" =>
        LET others == Plus(Plus(Plus(IncomeComponent(profile), DebtComponent(profile)),
                                EmergencyComponent(profile)),
                           InvestmentComponent(profile))
            score == Reduce(result.score)
        IN  /\ (Get(profile, "net_monthly_income", 0) > 0
                   /\ Get(profile, "savings_total", 0) <= 0) => Eq(score, others)
            /\ Le(score, Plus(others, Num(25)))

C17_RatioPresentIffDenominator ==
    [][result'.fn = "calculate_financial_ratios" =>
          /\ profile' = profile
          /\ DOMAIN result'.map \subseteq RatioNames
          /\ "tax_efficiency" \in DOMAIN result'.map
                <=> Get(profile, "gross_monthly_income", 0) > 0
          /\ \A r \in {"expense_ratio", "savings_rate", "debt_to_income"} :
                r \in DOMAIN result'.map <=> Get(profile, "net_monthly_income", 0) > 0
          /\ "investment_allocation" \in DOMAIN result'.map
                <=> Get(profile, "assets_total", 0) > 0
          /\ "emergency_fund_months" \in DOMAIN result'.map
                <=> Get(profile, "fixed_costs_total", 0) > 0]_vars

\* C17, its case: the ratios of a partial profile with a gross income, no
\* net income field and a negative denominator.
C17_Witness ==
    /\ result.fn = "calculate_financial_ratios"
    /\ Get(profile, "gross_monthly_income", 0) > 0
    /\ "net_monthly_income" \notin DOMAIN profile
    /\ Get(profile, "fixed_costs_total", 0) < 0

\* C18: a non-empty profile of a session has every monetary field >= 0,
\* total_net_worth = assets_total + investments_total + savings_total -
\* debts_total, and fixed_costs_total = the sum of the nine expense
\* categories (a missing field counting as 0).
C18_SessionProfileInvariants ==
    \A u \in Users :
        LET d == session_state[u]
            Sum9 == Get(d, "rent_mortgage", 0) + Get(d, "utilities", 0)
                      + Get(d, "insurance", 0) + Get(d, "transportation", 0)
                      + Get(d, "groceries", 0) + Get(d, "clothes", 0)
                      + Get(d, "phone", 0) + Get(d, "subscriptions", 0)
                      + Get(d, "miscellaneous", 0)
        IN  d # EmptyMap =>
                /\ \A k \in DOMAIN d \cap MonetaryFields : d[k] >= 0
                /\ Get(d, "total_net_worth", 0)
                      = Get(d, "assets_total", 0) + Get(d, "investments_total", 0)
                          + Get(d, "savings_total", 0) - Get(d, "debts_total", 0)
                /\ Get(d, "fixed_costs_total", 0) = Sum9

\* C19: in the records generate_predictions returns, the 1-year and 3-year
\* status is Good below 0.3, Moderate from 0.3 to below 0.7, High Risk from
\* 0.7; the 10-year status is Excellent below 0.2, Good from 0.2 to below
\* 0.5, Moderate from 0.5: each boundary value is in the higher-risk bucket.
C19_StatusThresholds ==
    \A s \in Sessions :
        (/\ pc[s] = "done"
         /\ op[s] = "generate_predictions"
         /\ ret[s].kind = "predictions"
         /\ ret[s].predictions # EmptyMap) =>
            LET p == risk_score[s]
                near == IF p < 30 THEN "Good"
                        ELSE IF 30 <= p /\ p < 70 THEN "Moderate" ELSE "High Risk"
                far == IF p < 20 THEN "Excellent"
                       ELSE IF 20 <= p /\ p < 50 THEN "Good" ELSE "Moderate"
            IN  /\ ret[s].predictions["1_year"].health_status = near
                /\ ret[s].predictions["3_year"].health_status = near
                /\ ret[s].predictions["10_year"].health_status = far
                /\ p = 30 => ret[s].predictions["1_year"].health_status = "Moderate"
                /\ p = 70 => ret[s].predictions["3_year"].health_status = "High Risk"
                /\ p = 20 => ret[s].predictions["10_year"].health_status = "Good"
                /\ p = 50 => ret[s].predictions["10_year"].health_status = "Moderate"

\* C19, its case: records returned for a risk probability on a boundary of
\* the short horizons.
C19_Witness ==
    \E s \in Sessions :
        /\ pc[s] = "done"
        /\ op[s] = "generate_predictions"
        /\ ret[s].kind = "predictions"
        /\ ret[s].predictions # EmptyMap
        /\ risk_score[s] = 70

C21_CapNeverBinding ==
    (result.fn = "calculate_financial_health_score" /\ NonNegative(profile)) =>
        LET sum == Reduce(HealthScoreSum(profile))
            AtMaxima == /\ Eq(IncomeComponent(profile), Num(20))
                        /\ Eq(Reduce(SavingsComponent(profile)), Num(25))
                        /\ Eq(DebtComponent(profile), Num(20))
                        /\ Eq(EmergencyComponent(profile), Num(15))
                        /\ Eq(InvestmentComponent(profile), Num(20))
        IN  /\ Le(sum, Num(100))
            /\ Eq(Reduce(result.score), sum)
            /\ Eq(sum, Num(100)) <=> AtMaxima

\* C21, its case: the score of a profile whose five components are at their
\* maxima.
C21_Witness ==
    /\ result.fn = "calculate_financial_health_score"
    /\ NonNegative(profile)
    /\ Eq(Reduce(SavingsComponent(profile)), Num(25))
    /\ Eq(EmergencyComponent(profile), Num(15))
    /\ Eq(InvestmentComponent(profile), Num(20))
    /\ Eq(Reduce(result.score), Num(100))

\* C22: calculate_risk_factors divides by no zero and returns the five
\* factors; a missing or zero net_monthly_income gives Debt Risk 10,
\* Insurance Coverage 8 and Expense Management 8, a missing or zero
\* fixed_costs_total gives Emergency Fund 8, a missing or zero assets_total
\* gives Investment Risk 5, whatever the other fields are.
C22_RiskFallbackConstants ==
    result.fn = "calculate_risk_factors" =>
        /\ DOMAIN result.map = RiskFactorNames
        /\ \A f \in RiskFactorNames : result.map[f][2] > 0
        /\ Get(profile, "net_monthly_income", 0) = 0 =>
              /\ result.map["Debt Risk"] = <<10, 1>>
              /\ result.map["Insurance Coverage"] = <<8, 1>>
              /\ result.map["Expense Management"] = <<8, 1>>
        /\ Get(profile, "fixed_costs_total", 0) = 0 =>
              result.map["Emergency Fund"] = <<8, 1>>
        /\ Get(profile, "assets_total", 0) = 0 =>
              result.map["Investment Risk"] = <<5, 1>>

\* C22, its case: the risk factors of a profile with debts, an explicit net
\* income of 0, fixed costs of 0 and no assets field, the other denominators
\* of a factor being present.
C22_Witness ==
    /\ result.fn = "calculate_risk_factors"
    /\ "net_monthly_income" \in DOMAIN profile
    /\ Get(profile, "net_monthly_income", 1) = 0
    /\ "fixed_costs_total" \in DOMAIN profile
    /\ Get(profile, "fixed_costs_total", 1) = 0
    /\ "assets_total" \notin DOMAIN profile
    /\ Get(profile, "debts_total", 0) > 0
    /\ Get(profile, "investments_total", 0) > 0

\* C23: for every profile without negative amounts and every factor that
\* has a mitigation suggestion, the risk tab emits the suggestion exactly
\* when it labels the factor High (score > 7).
C23_SuggestionIffHigh ==
    (result.fn = "render_risk_tab" /\ NonNegative(profile)) =>
        \A i \in DOMAIN SuggestedFactors :
            LET f == SuggestedFactors[i]
                emitted == \E j \in DOMAIN result.map.suggestions :
                               result.map.suggestions[j] = SuggestionOf(f)
            IN  emitted <=> result.map.risk_level[f] = "High"

\* C24: for a profile with net_monthly_income = 0 (or missing) and no
\* negative amount, the debt component of the health score is 20 when
\* debts_total = 0 and 5 when debts_total >= 1 (the score is that component
\* plus the emergency and investment components, income and savings giving
\* nothing), while Debt Risk is 10 whatever debts_total is.
C24_ZeroIncomeDebtComponent ==
    (NonNegative(profile) /\ Get(profile, "net_monthly_income", 0) = 0) =>
        LET debt == Get(profile, "debts_total", 0)
            component == IF debt = 0 THEN Num(20) ELSE Num(5)
            expected == Plus(Plus(component, EmergencyComponent(profile)),
                             InvestmentComponent(profile))
        IN  /\ result.fn = "calculate_financial_health_score" =>
                  Eq(result.score, expected)
            /\ previous.fn = "calculate_financial_health_score" =>
                  Eq(previous.score, expected)
            /\ result.fn = "calculate_risk_factors" =>
                  result.map["Debt Risk"] = <<10, 1>>
            /\ previous.fn = "calculate_risk_factors" =>
                  previous.map["Debt Risk"] = <<10, 1>>

\* C24, its case: the score and then the risk factors of one profile with an
\* income of 0 and debts of 0, which gets the best debt tier and the maximal
\* debt risk.
C24_Witness ==
    /\ previous.fn = "calculate_financial_health_score"
    /\ result.fn = "calculate_risk_factors"
    /\ "net_monthly_income" \in DOMAIN profile
    /\ Get(profile, "net_monthly_income", 1) = 0
    /\ "debts_total" \in DOMAIN profile
    /\ Get(profile, "debts_total", 1) = 0
    /\ Le(Num(20), previous.score)
    /\ result.map["Debt Risk"] = <<10, 1>>

\* C25: in every state reached by the calls of one session, is_trained
\* implies that the four model attributes are set (each holds a fitted
\* estimator), and no step changes is_trained from true to false.
C25_TrainedImpliesModelsSet ==
    /\ [](is_trained => \A m \in ModelNames : models[m] = "fitted")
    /\ [][is_trained => is_trained']_vars

\* C25, its case: the predictor is trained and an inference operation has
\* returned the classifier's answer.
C25_Witness ==
    /\ is_trained
    /\ training_data = "present"
    /\ pc["s1"] = "done"
    /\ op["s1"] = "assess_risk"
    /\ ret["s1"] = Returned(100)

\* C26: a failed training leaves nothing that stops the next attempt.  The
\* `if not self.is_trained` test at the head of a called operation starts
\* train_models when is_trained is false and not when it is true;
\* train_models is started nowhere else, so a call makes one attempt at
\* most; and a generate_predictions call whose attempt fails returns the
\* empty mapping without having entered a predict_* operation.
C26_NoStickyDegradedState ==
    [][\A s \in Sessions :
          LET Training(p) == p \in {"load"} \cup PreprocessPc \cup TargetPc \cup FitPc \cup {"finish"}
              called == op[s] \in PredictOps \cup {"generate_predictions"}
          IN  called =>
                /\ (pc[s] = "check" /\ pc'[s] # "check" /\ sub[s] = op[s] /\ ~is_trained)
                      => pc'[s] = "load"
                /\ (pc[s] = "check" /\ is_trained) => ~Training(pc'[s])
                /\ (~Training(pc[s]) /\ Training(pc'[s]))
                      => (pc[s] = "check" /\ pc'[s] = "load" /\ sub[s] = op[s] /\ ~is_trained)
                /\ (Training(pc[s]) /\ ~Training(pc'[s]) /\ ~is_trained'
                        /\ op[s] = "generate_predictions")
                      => /\ pc'[s] = "done"
                         /\ sub'[s] = "generate_predictions"
                         /\ ret'[s] = ReturnedPredictions(EmptyMap)
                         /\ features'[s] = NoFeatures]_vars

\* C26, its case: a new attempt has been started while a model attribute
\* still holds the estimator that an earlier, failed attempt left unfitted.
C26_Witness ==
    /\ ~is_trained
    /\ pc["s1"] = "load"
    /\ op["s1"] = "generate_predictions"
    /\ models["expense"] = "fitted"
    /\ models["investment"] = "unfitted"

\* C27: for any profile Investment Risk is 3, 5, 6 or 7; the risk tab never
\* labels it High and never emits the suggestion "Diversify your investment
\* portfolio".
C27_InvestmentRiskNeverHigh ==
    result.fn = "render_risk_tab" =>
        /\ result.map.risk_factors["Investment Risk"] \in {<<3, 1>>, <<5, 1>>, <<6, 1>>, <<7, 1>>}
        /\ result.map.risk_level["Investment Risk"] # "High"
        /\ \A j \in DOMAIN result.map.suggestions :
              result.map.suggestions[j] # "Diversify your investment portfolio"

\* C27, its case: the risk tab of a profile whose investments are more than
\* 0.8 of its assets, the highest Investment Risk, shown with other
\* suggestions.
C27_Witness ==
    /\ result.fn = "render_risk_tab"
    /\ result.map.risk_factors["Investment Risk"] = <<7, 1>>
    /\ result.map.risk_level["Investment Risk"] = "Medium"
    /\ Len(result.map.suggestions) >= 2

\* C28: when the form is submitted the profile of the session becomes the
\* submitted mapping, dated, whether or not the store accepts it; when the
\* save fails the stored document keeps its content and no is_trained test
\* follows; when it succeeds the document holds the submitted fields and the
\* test follows; train_models is started only from that test, with
\* is_trained false and the submitted mapping stored.
C28_SessionReplacedBeforePersisting ==
    [][\A u \in Users :
          LET s == SessionOf(u)
              Stored(st, d) == /\ u \in DOMAIN st
                               /\ \A k \in DOMAIN d : k \in DOMAIN st[u] /\ st[u][k] = d[k]
          IN  /\ (op'[s] = "save_user_data" /\ now' = now + 1) =>
                    /\ session_state'[u] = user_data'[s]
                    /\ session_state'[u]["last_updated"] = now
                    /\ \/ store' = store /\ pc'[s] = "done"
                       \/ /\ store' # store
                          /\ Stored(store', user_data'[s])
                          /\ pc'[s] = "check"
              /\ (pc'[s] = "load" /\ pc[s] # "load") =>
                    /\ pc[s] = "check"
                    /\ ~is_trained
                    /\ Stored(store, user_data[s])]_vars

\* C28, its case: after a first submission was stored, a second one with
\* other amounts was refused by the store: the session has the second, the
\* store the first, and the predictor, whose training failed, is not trained.
C28_Witness ==
    /\ pc["s1"] = "done"
    /\ op["s1"] = "save_user_data"
    /\ ~is_trained
    /\ "u1" \in DOMAIN store
    /\ session_state["u1"] = user_data["s1"]
    /\ Get(session_state["u1"], "last_updated", 0) = 1
    /\ Get(store["u1"], "timestamp", 1) = 0
    /\ Get(session_state["u1"], "debts_total", 0) # Get(store["u1"], "debts_total", 0)

\* C29: in the records generate_predictions returns, the 1-year and 3-year
\* health_status are equal, and the 10-year health_status is never worse
\* than the 1-year one in the order Excellent > Good > Moderate > High Risk,
\* and never "High Risk".
C29_LongHorizonNeverWorse ==
    \A s \in Sessions :
        (/\ pc[s] = "done"
         /\ op[s] = "generate_predictions"
         /\ ret[s].kind = "predictions"
         /\ ret[s].predictions # EmptyMap) =>
            LET Rank(status) == CASE status = "Excellent" -> 3
                                  [] status = "Good" -> 2
                                  [] status = "Moderate" -> 1
                                  [] status = "High Risk" -> 0
                short == ret[s].predictions["1_year"].health_status
                middle == ret[s].predictions["3_year"].health_status
                long == ret[s].predictions["10_year"].health_status
            IN  /\ short = middle
                /\ Rank(long) >= Rank(short)
                /\ long # "High Risk"

\* C29, its case: records returned for a risk probability of 0.3, where the
\* 10-year status is better than the 1-year one.
C29_Witness ==
    \E s \in Sessions :
        /\ pc[s] = "done"
        /\ op[s] = "generate_predictions"
        /\ ret[s].kind = "predictions"
        /\ ret[s].predictions # EmptyMap
        /\ risk_score[s] = 30
        /\ ret[s].predictions["1_year"].health_status = "Moderate"
        /\ ret[s].predictions["10_year"].health_status = "Good"

\* C30: on the in-memory store, save_chat_history writes documents to the
\* collection 'chats' only, so the collection 'chat_history' that
\* get_chat_history reads stays empty: get_chat_history always returns the
\* empty list, and the messages of a session change only in the handlers
\* that save, never in load_chat_history.
C30_ChatHistoryNeverRead ==
    /\ [](/\ DOMAIN collections \subseteq {"chats", "chat_history"}
          /\ \A c \in DOMAIN collections : c # "chats" => collections[c] = EmptyMap
          /\ \A u \in Users : chat_returned[u].history = <<>>)
    /\ [][\A u \in Users :
             /\ chat_messages'[u] # chat_messages[u] => now' = now + 1
             /\ chat_returned'[u] # chat_returned[u] => chat_messages'[u] = chat_messages[u]]_vars

\* C30, its case: a history of four messages was saved for a user whose
\* session holds two, and a later get_chat_history for that user returned
\* the empty list.
C30_Witness ==
    /\ "chats" \in DOMAIN collections
    /\ "u1" \in DOMAIN collections["chats"]
    /\ Len(collections["chats"]["u1"].chat_history) = 4
    /\ Len(chat_messages["u1"]) = 2
    /\ chat_returned["u1"].done
    /\ chat_returned["u1"].at > collections["chats"]["u1"].timestamp
    /\ chat_returned["u1"].history = <<>>

====
